---- MODULE Spec2Model ----
(***************************************************************************)
(* MFRC522 RFID reader driver (MakeCode, Calliope Mini V3).                *)
(*                                                                         *)
(* The driver is a single-threaded program that talks to the chip through  *)
(* three primitives: pins.digitalWritePin, pins.spiWrite and pins.spiRead. *)
(* One step of the model is one such primitive, or one call/return of a    *)
(* driver function; the program position is a call stack of frames.        *)
(* The chip is the environment: an SPI slave that decodes the address      *)
(* frame the driver sends and keeps a register file.                       *)
(***************************************************************************)
EXTENDS Integers, Sequences, FiniteSets, TLC

VARIABLES
    nss,      \* level of the chip-select pin (DigitalPin.P3)
    rst,      \* level of the reset pin (DigitalPin.C4)
    sel,      \* chip: address frame latched since chip-select fell, <<>> if none
    regs,     \* chip: the register file, 6-bit address -> byte
    busy,     \* chip: polls of CommandReg that still read "reset in progress"
    sim,      \* TRUE: plain register file (every read returns what was written)
    stack,    \* driver: call stack of frames, innermost last
    ret,      \* driver: value returned by the function that returned last
    call,     \* the top-level operation being run, or run last
    regs0,    \* the register file when that operation was called
    prev,     \* the top-level operation completed before it
    obs,      \* what the bus has seen since that operation was called
    test,     \* test harness: the register address and the byte it applies
    inited    \* init() has returned at least once

vars == <<nss, rst, sel, regs, busy, sim, stack, ret, call, regs0, prev, obs,
          test, inited>>

----------------------------------------------------------------------------
(* Bounds of the model *)

\* the longest busy period (in polls) of a chip that ends its soft reset
MaxBusy == 3

\* CommandReg reads are counted up to here (a chip that never ends its reset
\* is polled without end; the count saturates)
PollCap == MaxBusy + 2

----------------------------------------------------------------------------
(* Register addresses, commands *)

CommandReg     == \H01
ComIrqReg      == \H04
FIFODataReg    == \H09
FIFOLevelReg   == \H0A
BitFramingReg  == \H0D
ModeReg        == \H11
TxControlReg   == \H14

PCD_IDLE       == \H00
PCD_SOFTRESET  == \H0F
PCD_TRANSCEIVE == \H0C

PICC_REQIDL    == \H26
PICC_ANTICOLL  == \H93

----------------------------------------------------------------------------
(* JavaScript's bitwise operators on the (small) integers the driver uses. *)
(* ~x is -x-1; & and | work on the two's complement representation.        *)

BitNot(x) == (0 - x) - 1

RECURSIVE BitAnd(_, _)
BitAnd(a, b) ==
    IF a = 0 \/ b = 0 THEN 0
    ELSE IF a = BitNot(0) THEN b
    ELSE IF b = BitNot(0) THEN a
    ELSE (a % 2) * (b % 2) + 2 * BitAnd(a \div 2, b \div 2)

RECURSIVE BitOr(_, _)
BitOr(a, b) ==
    IF a = 0 THEN b
    ELSE IF b = 0 THEN a
    ELSE IF a = BitNot(0) \/ b = BitNot(0) THEN BitNot(0)
    ELSE (IF a % 2 = 1 \/ b % 2 = 1 THEN 1 ELSE 0) + 2 * BitOr(a \div 2, b \div 2)

----------------------------------------------------------------------------
(* The values the simulated chip may answer with *)

Byte == 0 .. 255

\* CommandReg while the soft reset is in progress (PowerDown, bit 4, set)
CmdBusyVals == {\H10, \H3F}
\* CommandReg once the reset has ended (bit 4 clear)
CmdIdleVals == {\H00, \H20}
\* ComIrqReg: nothing, IdleIRq, RxIRq, both, and bits outside the mask 0x30
IrqVals     == {\H00, \H10, \H20, \H30, \H45}
\* FIFOLevelReg: byte counts around the two the driver looks for
LevelVals   == {0, 2, 4, 5, 7}
\* FIFODataReg: the bytes of a card's answer
DataVals    == {\H04, \HAA, \HBB, \HCC, \HDD}
\* the content of the registers when the application starts
PowerOnBytes == {\H00, \HFF}
\* MISO when no chip drives it
FloatVals   == {\H00, \HFF}

\* test harness: the registers and bytes the register-level tests use
TestAddrs   == {\H00, BitFramingReg, TxControlReg, \H3F}
TestBytes   == {\H00, \H03, \H80, \HA5, \HFF}
FillBytes   == {\H00, \H02, \H5A, \HFF}

----------------------------------------------------------------------------
(* The chip: an SPI slave *)

\* the register a latched address frame names, and its direction
FrameAddr(f) == (f \div 2) % 64
FrameIsRead(f) == f >= 128

\* what a read of register a may return
ChipRead(a) ==
    IF sim THEN {regs[a]}
    ELSE IF a = CommandReg
         THEN (IF busy.never \/ busy.left > 0 THEN CmdBusyVals ELSE CmdIdleVals)
    ELSE IF a = ComIrqReg THEN IrqVals
    ELSE IF a = FIFOLevelReg THEN LevelVals
    ELSE IF a = FIFODataReg THEN DataVals
    ELSE {regs[a]}

\* the busy periods a chip may choose when it is told to reset
BusyChoices ==
    {[never |-> FALSE, left |-> n] : n \in 0 .. MaxBusy}
        \cup {[never |-> TRUE, left |-> 0]}

NotBusy == [never |-> FALSE, left |-> 0]

\* irqReads, irqHit: the run of consecutive ComIrqReg reads in progress, and
\* whether one of them has shown RxIRq or IdleIRq; irqAfterHit: ComIrqReg
\* was read again after such a read; serial: the lines written to the serial
\* port
Obs0 == [writes |-> <<>>, levels |-> <<>>, data |-> <<>>, cmdReads |-> 0,
         busySeen |-> 0, xferHigh |-> FALSE, nested |-> FALSE,
         irqReads |-> 0, irqHit |-> FALSE, irqAfterHit |-> FALSE,
         serial |-> <<>>]

Sat(n) == IF n < PollCap THEN n + 1 ELSE n

----------------------------------------------------------------------------
(* The three primitives of the platform, as the chip sees them *)

\* pins.digitalWritePin(NSS, level)
digitalWritePinNSS(level) ==
    /\ nss' = level
    /\ sel' = <<>>
    /\ obs' = [obs EXCEPT !.nested = @ \/ (level = 0 /\ nss = 0)]
    /\ UNCHANGED <<rst, regs, busy>>

\* pins.spiWrite(b): one byte clocked out on MOSI
spiWrite(b) ==
    LET byte == b % 256 IN
    /\ UNCHANGED <<nss, rst>>
    /\ IF nss = 1
       THEN /\ obs' = [obs EXCEPT !.xferHigh = TRUE]
            /\ UNCHANGED <<sel, regs, busy>>
       ELSE IF sel = <<>>
       THEN /\ sel' = <<byte>>
            /\ UNCHANGED <<regs, busy, obs>>
       ELSE IF FrameIsRead(sel[1])
       THEN UNCHANGED <<sel, regs, busy, obs>>
       ELSE /\ regs' = [regs EXCEPT ![FrameAddr(sel[1])] =
                                 IF ~sim /\ FrameAddr(sel[1]) = CommandReg
                                         /\ byte = PCD_SOFTRESET
                                 THEN PCD_IDLE ELSE byte]
            /\ obs' = [obs EXCEPT
                         !.writes = Append(@, <<FrameAddr(sel[1]), byte>>)]
            /\ IF ~sim /\ FrameAddr(sel[1]) = CommandReg /\ byte = PCD_SOFTRESET
               THEN busy' \in BusyChoices
               ELSE busy' = busy
            /\ UNCHANGED sel

\* what pins.spiRead(0) may return
Miso ==
    IF nss = 1 \/ sel = <<>> THEN FloatVals
    ELSE IF ~FrameIsRead(sel[1]) THEN FloatVals
    ELSE ChipRead(FrameAddr(sel[1]))

\* pins.spiRead(0) returning v: one byte clocked in on MISO
spiRead(v) ==
    LET a == IF nss = 0 /\ sel # <<>> /\ FrameIsRead(sel[1])
             THEN FrameAddr(sel[1]) ELSE 64
    IN
    /\ v \in Miso
    /\ UNCHANGED <<nss, rst, sel, regs>>
    /\ busy' = IF a = CommandReg /\ busy.left > 0
               THEN [busy EXCEPT !.left = @ - 1] ELSE busy
    /\ obs' = [obs EXCEPT
                 !.xferHigh = @ \/ nss = 1,
                 !.levels = IF a = FIFOLevelReg THEN Append(@, v) ELSE @,
                 !.data = IF a = FIFODataReg THEN Append(@, v) ELSE @,
                 !.cmdReads = IF a = CommandReg THEN Sat(@) ELSE @,
                 !.busySeen = IF a = CommandReg /\ (v \div 16) % 2 = 1
                              THEN Sat(@) ELSE @,
                 !.irqReads = IF a = ComIrqReg THEN @ + 1 ELSE 0,
                 !.irqHit = IF a = ComIrqReg
                            THEN @ \/ (v \div 16) % 4 # 0 ELSE FALSE,
                 !.irqAfterHit = @ \/ (a = ComIrqReg /\ obs.irqHit)]

NoBus == UNCHANGED <<nss, rst, sel, regs, busy, obs>>

----------------------------------------------------------------------------
(* The driver's call stack *)

NoStr == <<>>
NoRet == [num |-> 0, str |-> NoStr]

Frame(fn, addr, val) ==
    [fn |-> fn, pc |-> 1, addr |-> addr, val |-> val, cur |-> 0, i |-> 0,
     irq |-> 0, uid |-> <<>>]

Top == stack[Len(stack)]
Running(fn) == stack # <<>> /\ Top.fn = fn
At(fn, pc) == Running(fn) /\ Top.pc = pc

Goto(pc) == stack' = [stack EXCEPT ![Len(stack)].pc = pc]
\* call f and continue at pc when it returns
Call(f, pc) == stack' = Append([stack EXCEPT ![Len(stack)].pc = pc], f)
Return == stack' = SubSeq(stack, 1, Len(stack) - 1)

Harness == UNCHANGED <<sim, call, regs0, prev, test, inited>>

----------------------------------------------------------------------------
(* Register access layer *)

\* an address frame that is not shifted past the direction bit
writeFrame_noshift(addr) == BitAnd(addr, \H7E)

\* the address frame of a write: (addr << 1) & 0x7E
writeFrame(addr) == BitAnd(addr * 2, \H7E)

\* the address frame of a read: ((addr << 1) & 0x7E) | 0x80
readFrame(addr) == BitOr(BitAnd(addr * 2, \H7E), \H80)

\* a register access that forgets to release chip-select
release_missing == NoBus

\* pins.digitalWritePin(NSS, 1), the last statement of a register access
release == digitalWritePinNSS(1)

writeReg ==
    /\ Running("writeReg")
    /\ Harness
    /\ UNCHANGED ret
    /\ \/ /\ Top.pc = 1
          /\ digitalWritePinNSS(0)
          /\ Goto(2)
       \/ /\ Top.pc = 2
          /\ spiWrite(writeFrame(Top.addr))
          /\ Goto(3)
       \/ /\ Top.pc = 3
          /\ spiWrite(Top.val)
          /\ Goto(4)
       \/ /\ Top.pc = 4
          /\ release
          /\ Return

readReg ==
    /\ Running("readReg")
    /\ Harness
    /\ \/ /\ Top.pc = 1
          /\ digitalWritePinNSS(0)
          /\ Goto(2)
          /\ UNCHANGED ret
       \/ /\ Top.pc = 2
          /\ spiWrite(readFrame(Top.addr))
          /\ Goto(3)
          /\ UNCHANGED ret
       \/ /\ Top.pc = 3
          /\ \E v \in Miso :
               /\ spiRead(v)
               /\ stack' = [stack EXCEPT ![Len(stack)].pc = 4,
                                         ![Len(stack)].val = v]
          /\ UNCHANGED ret
       \/ /\ Top.pc = 4
          /\ release
          /\ ret' = [num |-> Top.val, str |-> NoStr]
          /\ Return

----------------------------------------------------------------------------
(* Bit-mask helpers *)

\* the mask written in place of the bits or-ed in
setValue_assign(current, mask) == mask

\* + in place of |
setValue_plus(current, mask) == current + mask

\* current | mask
setValue(current, mask) == BitOr(current, mask)

\* the bits left as they are
clearValue_keep(current, mask) == current

\* the mask not complemented
clearValue_and(current, mask) == BitAnd(current, mask)

\* current & (~mask)
clearValue(current, mask) == BitAnd(current, BitNot(mask))

setBitMask ==
    /\ Running("setBitMask")
    /\ Harness
    /\ NoBus
    /\ UNCHANGED ret
    /\ \/ /\ Top.pc = 1
          /\ Call(Frame("readReg", Top.addr, 0), 2)
       \/ /\ Top.pc = 2
          /\ Call(Frame("writeReg", Top.addr, setValue(ret.num, Top.val)), 3)
       \/ /\ Top.pc = 3
          /\ Return

clearBitMask ==
    /\ Running("clearBitMask")
    /\ Harness
    /\ NoBus
    /\ UNCHANGED ret
    /\ \/ /\ Top.pc = 1
          /\ Call(Frame("readReg", Top.addr, 0), 2)
       \/ /\ Top.pc = 2
          /\ Call(Frame("writeReg", Top.addr, clearValue(ret.num, Top.val)), 3)
       \/ /\ Top.pc = 3
          /\ Return

----------------------------------------------------------------------------
(* Chip control: antenna *)

\* a test that takes one enabled driver for an enabled antenna
antennaIsOff_any(value) == BitAnd(value, \H03) = 0

\* (value & 0x03) != 0x03
antennaIsOff(value) == BitAnd(value, \H03) # \H03

antennaOn ==
    /\ Running("antennaOn")
    /\ Harness
    /\ NoBus
    /\ UNCHANGED ret
    /\ \/ /\ Top.pc = 1
          /\ Call(Frame("readReg", TxControlReg, 0), 2)
       \/ /\ Top.pc = 2
          /\ antennaIsOff(ret.num)
          /\ Call(Frame("setBitMask", TxControlReg, \H03), 3)
       \/ /\ Top.pc = 2
          /\ ~antennaIsOff(ret.num)
          /\ Return
       \/ /\ Top.pc = 3
          /\ Return

----------------------------------------------------------------------------
(* Chip control: soft reset and initialisation *)

\* the wrong bit of CommandReg: 1 << 5
resetPending_bit5(value) == BitAnd(value, 32) # 0

\* (readReg(CommandReg) & (1 << 4)) !== 0
resetPending(value) == BitAnd(value, 16) # 0

\* a reset that commands SoftReset and does not wait for it to end
reset_nowait ==
    /\ Running("reset")
    /\ Harness
    /\ NoBus
    /\ UNCHANGED ret
    /\ \/ /\ Top.pc = 1
          /\ Call(Frame("writeReg", CommandReg, PCD_SOFTRESET), 2)
       \/ /\ Top.pc = 2
          /\ Return

reset ==
    /\ Running("reset")
    /\ Harness
    /\ NoBus
    /\ UNCHANGED ret
    /\ \/ /\ Top.pc = 1
          /\ Call(Frame("writeReg", CommandReg, PCD_SOFTRESET), 2)
       \/ /\ Top.pc = 2
          /\ Call(Frame("readReg", CommandReg, 0), 3)
       \/ /\ Top.pc = 3
          /\ resetPending(ret.num)
          /\ Goto(2)
       \/ /\ Top.pc = 3
          /\ ~resetPending(ret.num)
          /\ Return

init ==
    /\ Running("init")
    /\ UNCHANGED <<sim, call, regs0, prev, test, ret>>
    /\ \/ /\ Top.pc = 1
          /\ digitalWritePinNSS(1)
          /\ Goto(2)
          /\ UNCHANGED inited
       \/ /\ Top.pc = 2
          /\ rst' = 1
          /\ UNCHANGED <<nss, sel, regs, busy, obs>>
          /\ Goto(3)
          /\ UNCHANGED inited
       \/ /\ Top.pc = 3
          /\ NoBus
          /\ Call(Frame("reset", 0, 0), 4)
          /\ UNCHANGED inited
       \/ /\ Top.pc = 4
          /\ NoBus
          /\ Call(Frame("writeReg", \H2A, \H80), 5)
          /\ UNCHANGED inited
       \/ /\ Top.pc = 5
          /\ NoBus
          /\ Call(Frame("writeReg", \H2B, \HA9), 6)
          /\ UNCHANGED inited
       \/ /\ Top.pc = 6
          /\ NoBus
          /\ Call(Frame("writeReg", \H2C, \H03), 7)
          /\ UNCHANGED inited
       \/ /\ Top.pc = 7
          /\ NoBus
          /\ Call(Frame("writeReg", \H2D, \HE8), 8)
          /\ UNCHANGED inited
       \/ /\ Top.pc = 8
          /\ NoBus
          /\ Call(Frame("writeReg", ModeReg, \H3D), 9)
          /\ UNCHANGED inited
       \/ /\ Top.pc = 9
          /\ NoBus
          /\ Call(Frame("antennaOn", 0, 0), 10)
          /\ UNCHANGED inited
       \/ /\ Top.pc = 10
          /\ NoBus
          /\ Return
          /\ inited' = TRUE

----------------------------------------------------------------------------
(* Card presence *)

\* the retry budget of the ComIrqReg poll
PollTries == 25

\* a poll without the retry budget
pollAgain_forever(i, irq) == BitAnd(irq, \H30) = 0

\* a poll that looks at RxIRq only
pollAgain_rxOnly(i, irq) == i > 0 /\ BitAnd(irq, \H20) = 0

\* the loop condition of the poll: i > 0 && ((irq & 0x30) === 0)
pollAgain(i, irq) == i > 0 /\ BitAnd(irq, \H30) = 0

\* presence for any answer that is not empty
presence_notEmpty(length) == IF length # 0 THEN 1 ELSE 0

\* presence for any answer of two bytes or more
presence_atLeast(length) == IF length >= 2 THEN 1 ELSE 0

\* if (length == 2) return 1; return 0
presence(length) == IF length = 2 THEN 1 ELSE 0

request ==
    /\ Running("request")
    /\ Harness
    /\ \/ /\ Top.pc = 1
          /\ NoBus
          /\ Call(Frame("writeReg", BitFramingReg, \H07), 2)
          /\ UNCHANGED ret
       \/ /\ Top.pc = 2
          /\ NoBus
          /\ Call(Frame("writeReg", FIFOLevelReg, \H80), 3)
          /\ UNCHANGED ret
       \/ /\ Top.pc = 3
          /\ digitalWritePinNSS(0)
          /\ Goto(4)
          /\ UNCHANGED ret
       \/ /\ Top.pc = 4
          /\ spiWrite(BitAnd(FIFODataReg * 2, \H7E))
          /\ Goto(5)
          /\ UNCHANGED ret
       \/ /\ Top.pc = 5
          /\ spiWrite(Top.val)
          /\ Goto(6)
          /\ UNCHANGED ret
       \/ /\ Top.pc = 6
          /\ digitalWritePinNSS(1)
          /\ Goto(7)
          /\ UNCHANGED ret
       \/ /\ Top.pc = 7
          /\ NoBus
          /\ Call(Frame("writeReg", CommandReg, PCD_TRANSCEIVE), 8)
          /\ UNCHANGED ret
       \/ /\ Top.pc = 8
          /\ NoBus
          /\ Call(Frame("setBitMask", BitFramingReg, \H80), 9)
          /\ UNCHANGED ret
       \/ /\ Top.pc = 9
          /\ NoBus
          /\ Call(Frame("clearBitMask", BitFramingReg, \H80), 10)
          /\ UNCHANGED ret
       \/ /\ Top.pc = 10
          /\ NoBus
          /\ stack' = [stack EXCEPT ![Len(stack)].pc = 11,
                                    ![Len(stack)].i = PollTries,
                                    ![Len(stack)].irq = 0]
          /\ UNCHANGED ret
       \/ /\ Top.pc = 11
          /\ NoBus
          /\ Call(Frame("readReg", ComIrqReg, 0), 12)
          /\ UNCHANGED ret
       \/ /\ Top.pc = 12
          /\ NoBus
          /\ stack' = [stack EXCEPT
                         ![Len(stack)].irq = ret.num,
                         ![Len(stack)].i = Top.i - 1,
                         ![Len(stack)].pc =
                             IF pollAgain(Top.i - 1, ret.num) THEN 11 ELSE 13]
          /\ UNCHANGED ret
       \/ /\ Top.pc = 13
          /\ NoBus
          /\ Call(Frame("readReg", FIFOLevelReg, 0), 14)
          /\ UNCHANGED ret
       \/ /\ Top.pc = 14
          /\ NoBus
          /\ ret' = [num |-> presence(ret.num), str |-> NoStr]
          /\ Return

----------------------------------------------------------------------------
(* Anti-collision and the UID string *)

HexDigits == <<"0", "1", "2", "3", "4", "5", "6", "7", "8", "9",
               "a", "b", "c", "d", "e", "f">>

\* Number.prototype.toString(16): lower-case digits, no leading zero.
\* A string is the sequence of its characters.
RECURSIVE toString16(_)
toString16(n) ==
    IF n < 16 THEN <<HexDigits[n + 1]>>
    ELSE toString16(n \div 16) \o <<HexDigits[(n % 16) + 1]>>

upperChar(c) ==
    CASE c = "a" -> "A" [] c = "b" -> "B" [] c = "c" -> "C"
      [] c = "d" -> "D" [] c = "e" -> "E" [] c = "f" -> "F"
      [] OTHER -> c

\* String.prototype.toUpperCase()
toUpperCase(s) == [k \in 1 .. Len(s) |-> upperChar(s[k])]

\* the formatting round without the leading zero
hexOf_nopad(b) == toUpperCase(toString16(b))

\* the formatting round without toUpperCase()
hexOf_lower(b) ==
    LET hex == toString16(b) IN
    IF Len(hex) < 2 THEN <<"0">> \o hex ELSE hex

\* one round of the formatting loop: hex = uid[i].toString(16), padded to two
\* characters, upper-cased
hexOf(b) ==
    LET hex == toString16(b) IN
    toUpperCase(IF Len(hex) < 2 THEN <<"0">> \o hex ELSE hex)

\* a formatting loop that assigns where the code appends
uidString_assign(uid) ==
    IF uid = <<>> THEN NoStr ELSE hexOf(uid[Len(uid)])

\* the formatting loop over uid
RECURSIVE uidString(_)
uidString(uid) ==
    IF uid = <<>> THEN NoStr
    ELSE hexOf(Head(uid)) \o uidString(Tail(uid))

\* a level test that lets long answers through
badLevel_below(fifoLevel) == fifoLevel < 5

\* if (fifoLevel != 5) return ""
badLevel(fifoLevel) == fifoLevel # 5

anticoll ==
    /\ Running("anticoll")
    /\ Harness
    /\ \/ /\ Top.pc = 1
          /\ NoBus
          /\ Call(Frame("writeReg", FIFOLevelReg, \H80), 2)
          /\ UNCHANGED ret
       \/ /\ Top.pc = 2
          /\ digitalWritePinNSS(0)
          /\ Goto(3)
          /\ UNCHANGED ret
       \/ /\ Top.pc = 3
          /\ spiWrite(BitAnd(FIFODataReg * 2, \H7E))
          /\ Goto(4)
          /\ UNCHANGED ret
       \/ /\ Top.pc = 4
          /\ spiWrite(PICC_ANTICOLL)
          /\ Goto(5)
          /\ UNCHANGED ret
       \/ /\ Top.pc = 5
          /\ spiWrite(\H20)
          /\ Goto(6)
          /\ UNCHANGED ret
       \/ /\ Top.pc = 6
          /\ digitalWritePinNSS(1)
          /\ Goto(7)
          /\ UNCHANGED ret
       \/ /\ Top.pc = 7
          /\ NoBus
          /\ Call(Frame("writeReg", CommandReg, PCD_TRANSCEIVE), 8)
          /\ UNCHANGED ret
       \/ /\ Top.pc = 8
          /\ NoBus
          /\ Call(Frame("setBitMask", BitFramingReg, \H80), 9)
          /\ UNCHANGED ret
       \/ /\ Top.pc = 9
          /\ NoBus
          /\ Call(Frame("clearBitMask", BitFramingReg, \H80), 10)
          /\ UNCHANGED ret
       \/ /\ Top.pc = 10
          /\ NoBus
          /\ Call(Frame("readReg", FIFOLevelReg, 0), 11)
          /\ UNCHANGED ret
       \/ /\ Top.pc = 11
          /\ NoBus
          /\ badLevel(ret.num)
          /\ ret' = [num |-> 0, str |-> NoStr]
          /\ Return
       \/ /\ Top.pc = 11
          /\ NoBus
          /\ ~badLevel(ret.num)
          /\ stack' = [stack EXCEPT ![Len(stack)].pc = 12,
                                    ![Len(stack)].cur = ret.num,
                                    ![Len(stack)].i = 0,
                                    ![Len(stack)].uid = <<>>]
          /\ UNCHANGED ret
       \/ /\ Top.pc = 12
          /\ NoBus
          /\ Top.i < Top.cur
          /\ Call(Frame("readReg", FIFODataReg, 0), 13)
          /\ UNCHANGED ret
       \/ /\ Top.pc = 13
          /\ NoBus
          /\ stack' = [stack EXCEPT ![Len(stack)].pc = 12,
                                    ![Len(stack)].uid = Append(@, ret.num),
                                    ![Len(stack)].i = @ + 1]
          /\ UNCHANGED ret
       \/ /\ Top.pc = 12
          /\ NoBus
          /\ ~(Top.i < Top.cur)
          /\ ret' = [num |-> 0, str |-> uidString(Top.uid)]
          /\ Return

getCardUID ==
    /\ Running("getCardUID")
    /\ Harness
    /\ NoBus
    /\ \/ /\ Top.pc = 1
          /\ Call(Frame("request", 0, PICC_REQIDL), 2)
          /\ UNCHANGED ret
       \/ /\ Top.pc = 2
          /\ ret.num = 1
          /\ Call(Frame("anticoll", 0, 0), 3)
          /\ UNCHANGED ret
       \/ /\ Top.pc = 2
          /\ ret.num # 1
          /\ ret' = [num |-> 0, str |-> NoStr]
          /\ Return
       \/ /\ Top.pc = 3
          /\ UNCHANGED ret
          /\ Return

----------------------------------------------------------------------------
(* Top-level calls *)

NoCall == [op |-> "none", addr |-> 0, val |-> 0]
NoPrev == [op |-> "none", pre |-> 0, post |-> 0, num |-> 0]

Idle == stack = <<>>

\* start operation op(addr, val) from the idle state
Begin(op, addr, val) ==
    /\ Idle
    /\ stack' = <<Frame(op, addr, val)>>
    /\ call' = [op |-> op, addr |-> addr, val |-> val]
    /\ regs0' = regs
    /\ obs' = Obs0
    /\ ret' = NoRet
    /\ UNCHANGED <<nss, rst, sel, regs, busy, sim, test, inited>>

\* the record kept of the operation that has just completed
Completed ==
    [op |-> call.op, pre |-> regs0[test.addr], post |-> regs[test.addr],
     num |-> ret.num]

----------------------------------------------------------------------------
(* Register-level test harness: a simulated register file with one content *)
(* in every register, and a caller that applies the register-level         *)
(* operations, in any order, to one address with one byte.                 *)

InitRegFile ==
    /\ nss = 1
    /\ rst = 1
    /\ sel = <<>>
    /\ \E x \in FillBytes : regs = [a \in 0 .. 63 |-> x]
    /\ busy = NotBusy
    /\ sim = TRUE
    /\ stack = <<>>
    /\ ret = NoRet
    /\ call = NoCall
    /\ regs0 = regs
    /\ prev = NoPrev
    /\ obs = Obs0
    /\ test \in [addr : TestAddrs, val : TestBytes]
    /\ inited = TRUE

TestWriteReg ==
    /\ Begin("writeReg", test.addr, test.val)
    /\ prev' = Completed

TestReadReg ==
    /\ Begin("readReg", test.addr, 0)
    /\ prev' = Completed

TestSetBitMask ==
    /\ Begin("setBitMask", test.addr, test.val)
    /\ prev' = Completed

TestClearBitMask ==
    /\ Begin("clearBitMask", test.addr, test.val)
    /\ prev' = Completed

TestAntennaOn ==
    /\ Begin("antennaOn", 0, 0)
    /\ prev' = Completed

NextRegFile ==
    \/ TestWriteReg
    \/ TestReadReg
    \/ TestSetBitMask
    \/ TestClearBitMask
    \/ TestAntennaOn
    \/ writeReg
    \/ readReg
    \/ setBitMask
    \/ clearBitMask
    \/ antennaOn

SpecRegFile == InitRegFile /\ [][NextRegFile]_vars

----------------------------------------------------------------------------
(* The application: RFID.init() first, then RFID.getCardUID() again and    *)
(* again (init() may be repeated), against a chip whose status, FIFO level *)
(* and FIFO data reads may return anything.                                *)

Init ==
    /\ nss \in {0, 1}
    /\ rst \in {0, 1}
    /\ sel = <<>>
    /\ \E x \in PowerOnBytes : regs = [a \in 0 .. 63 |-> x]
    /\ busy = NotBusy
    /\ sim = FALSE
    /\ stack = <<>>
    /\ ret = NoRet
    /\ call = NoCall
    /\ regs0 = regs
    /\ prev = NoPrev
    /\ obs = Obs0
    /\ test = [addr |-> 0, val |-> 0]
    /\ inited = FALSE

AppInit ==
    /\ Begin("init", 0, 0)
    /\ UNCHANGED prev

AppGetCardUID ==
    /\ inited
    /\ Begin("getCardUID", 0, 0)
    /\ UNCHANGED prev

Next ==
    \/ AppInit
    \/ AppGetCardUID
    \/ writeReg
    \/ readReg
    \/ setBitMask
    \/ clearBitMask
    \/ antennaOn
    \/ reset
    \/ init
    \/ request
    \/ anticoll
    \/ getCardUID

Spec == Init /\ [][Next]_vars

\* the processor always executes the next statement of a running operation
Exec ==
    \/ writeReg
    \/ readReg
    \/ setBitMask
    \/ clearBitMask
    \/ antennaOn
    \/ reset
    \/ init
    \/ request
    \/ anticoll
    \/ getCardUID

SpecLive == Spec /\ WF_vars(Exec)

----------------------------------------------------------------------------
(* The application that only initialises the chip (again and again): the   *)
(* part of the program the reset handshake lives in.                       *)

NextInit ==
    \/ AppInit
    \/ writeReg
    \/ readReg
    \/ setBitMask
    \/ antennaOn
    \/ reset
    \/ init

ExecInit ==
    \/ writeReg
    \/ readReg
    \/ setBitMask
    \/ antennaOn
    \/ reset
    \/ init

SpecInit == Init /\ [][NextInit]_vars /\ WF_vars(ExecInit)

----------------------------------------------------------------------------
(* Antenna off (namespace MFRC522): the application initialises the chip   *)
(* and turns the antenna off.                                              *)

AntennaOff ==
    /\ Running("AntennaOff")
    /\ Harness
    /\ UNCHANGED <<nss, rst, sel, regs, busy, ret>>
    /\ Top.pc = 1
    /\ obs' = [obs EXCEPT !.serial = Append(@, "Antenna turned off.")]
    /\ Return

AppAntennaOff ==
    /\ inited
    /\ Begin("AntennaOff", 0, 0)
    /\ UNCHANGED prev

NextAntenna ==
    \/ AppInit
    \/ AppAntennaOff
    \/ AntennaOff
    \/ writeReg
    \/ readReg
    \/ setBitMask
    \/ antennaOn
    \/ reset
    \/ init

SpecAntenna == Init /\ [][NextAntenna]_vars

----------------------------------------------------------------------------
(* The formatting loop of anticoll on its own: the uid array holds any     *)
(* byte, next to a byte from the ends of the one- and two-digit ranges.    *)

EdgeBytes == {\H00, \H0F, \H10, \HFF}

InitFormat ==
    /\ nss = 1
    /\ rst = 1
    /\ sel = <<>>
    /\ regs = [a \in 0 .. 63 |-> 0]
    /\ busy = NotBusy
    /\ sim = TRUE
    /\ stack = <<>>
    /\ ret = NoRet
    /\ call = NoCall
    /\ regs0 = regs
    /\ prev = NoPrev
    /\ obs = Obs0
    /\ test \in [addr : EdgeBytes, val : Byte]
    /\ inited = TRUE

\* the array the loop formats
TestUid == <<test.val, test.addr, test.val, test.addr, test.val>>

FormatUid ==
    /\ call = NoCall
    /\ call' = [op |-> "format", addr |-> test.addr, val |-> test.val]
    /\ ret' = [num |-> 0, str |-> uidString(TestUid)]
    /\ UNCHANGED <<nss, rst, sel, regs, busy, sim, stack, regs0, prev, obs,
                   test, inited>>

SpecFormat == InitFormat /\ [][FormatUid]_vars

----------------------------------------------------------------------------
(* Properties *)

\* the operation op has returned to the caller
Done(op) == Idle /\ call.op = op

\* bit k of the byte v
Bit(v, k) == (v \div (2 ^ k)) % 2

\* the bytes written to register a since the operation was called, in order
RECURSIVE WrittenTo(_, _)
WrittenTo(a, ws) ==
    IF ws = <<>> THEN <<>>
    ELSE (IF Head(ws)[1] = a THEN <<Head(ws)[2]>> ELSE <<>>)
             \o WrittenTo(a, Tail(ws))

\* an operation fn is on the call stack
Active(fn) == \E k \in 1 .. Len(stack) : stack[k].fn = fn

\* the two upper-case hexadecimal digits of a byte
UpperHex == <<"0", "1", "2", "3", "4", "5", "6", "7", "8", "9",
              "A", "B", "C", "D", "E", "F">>
TwoHex(b) == <<UpperHex[(b \div 16) + 1], UpperHex[(b % 16) + 1]>>

\* C1: when the presence request reads FIFO level 2 and the anti-collision
\* exchange reads FIFO level 5, getCardUID returns the 10 characters that
\* are the 2-digit upper-case hexadecimal encodings of exactly the 5 bytes
\* read from FIFODataReg, in read order; [04,AA,BB,CC,DD] gives "04AABBCCDD".
C1_UidOfFiveBytes ==
    (Done("getCardUID") /\ obs.levels = <<2, 5>>) =>
        /\ Len(obs.data) = 5
        /\ Len(ret.str) = 10
        /\ ret.str = TwoHex(obs.data[1]) \o TwoHex(obs.data[2])
                       \o TwoHex(obs.data[3]) \o TwoHex(obs.data[4])
                       \o TwoHex(obs.data[5])
        /\ (obs.data = <<\H04, \HAA, \HBB, \HCC, \HDD>> =>
              ret.str = <<"0", "4", "A", "A", "B", "B", "C", "C", "D", "D">>)

C1_Witness ==
    /\ Done("getCardUID")
    /\ obs.levels = <<2, 5>>
    /\ obs.data = <<\H04, \HAA, \HBB, \HCC, \HDD>>
    /\ ret.str = <<"0", "4", "A", "A", "B", "B", "C", "C", "D", "D">>

\* C2: no partial UID: if presence is detected but the FIFO level read in
\* the anti-collision step is not 5, getCardUID returns the empty string and
\* never reads FIFODataReg; every result of getCardUID is empty or 10
\* characters long.
C2_NoPartialUid ==
    /\ (call.op = "getCardUID" /\ obs.data # <<>>) => obs.levels = <<2, 5>>
    /\ Done("getCardUID") =>
          /\ Len(ret.str) \in {0, 10}
          /\ (Len(obs.levels) = 2 /\ obs.levels[1] = 2 /\ obs.levels[2] # 5) =>
                (ret.str = NoStr /\ obs.data = <<>>)

C2_Witness ==
    /\ Done("getCardUID")
    /\ obs.levels = <<2, 7>>
    /\ ret.str = NoStr
    /\ obs.data = <<>>

\* C3: when the presence request does not read FIFO level 2 after its poll,
\* getCardUID returns the empty string and never starts the anti-collision
\* exchange: the only byte put in the FIFO is the request code, Transceive
\* is written once, and FIFOLevelReg is read once.
C3_NoPresenceNoAnticoll ==
    (call.op = "getCardUID" /\ obs.levels # <<>> /\ obs.levels[1] # 2) =>
        /\ obs.levels = <<obs.levels[1]>>
        /\ WrittenTo(FIFODataReg, obs.writes) = <<PICC_REQIDL>>
        /\ WrittenTo(CommandReg, obs.writes) = <<PCD_TRANSCEIVE>>
        /\ obs.data = <<>>
        /\ ~Active("anticoll")
        /\ Idle => ret.str = NoStr

C3_Witness ==
    /\ Done("getCardUID")
    /\ obs.levels = <<4>>
    /\ ret.str = NoStr
    /\ WrittenTo(CommandReg, obs.writes) = <<PCD_TRANSCEIVE>>

\* C4: every register access is bracketed by chip-select low then high: no
\* byte is transferred while chip-select is high, chip-select is never
\* driven low while it is low, and it is high whenever an operation has
\* returned; this holds for the raw FIFO frames of request and anticoll too.
C4_ChipSelectBrackets ==
    /\ ~obs.xferHigh
    /\ ~obs.nested
    /\ (Idle /\ call.op # "none") => nss = 1
    /\ sel # <<>> => nss = 0

C4_Witness ==
    /\ At("anticoll", 6)
    /\ nss = 0
    /\ WrittenTo(FIFODataReg, obs.writes) = <<PICC_REQIDL, PICC_ANTICOLL, \H20>>

\* the soft reset has been commanded and its completion wait is running
ResetWaiting ==
    /\ Active("reset")
    /\ WrittenTo(CommandReg, obs.writes) # <<>>

\* reset() has just returned to init()
ResetReturned == At("init", 4)

\* C5: reset() writes SoftReset to CommandReg and then polls CommandReg
\* until bit 4 reads 0; against a chip that clears the bit after finitely
\* many polls it returns, having read CommandReg once more than the number
\* of polls that saw the bit set.
C5_ResetCompletes ==
    /\ [](obs.cmdReads > 0 =>
            Head(obs.writes) = <<CommandReg, PCD_SOFTRESET>>)
    /\ [](ResetReturned => obs.cmdReads = obs.busySeen + 1)
    /\ ((ResetWaiting /\ ~busy.never) ~> ResetReturned)

C5_Witness ==
    /\ ResetReturned
    /\ obs.busySeen = 3
    /\ obs.cmdReads = 4

\* C6: reset() stops polling after a bounded number of retries even against
\* a chip that never clears CommandReg bit 4, so reset() and init() always
\* come to an end.
C6_ResetAlwaysEnds ==
    /\ (Active("reset") ~> ~Active("reset"))
    /\ (Active("init") ~> Done("init"))

\* C7: against a simulated register file, writeReg(A, v) followed at once by
\* readReg(A) returns v, and the write changes no register other than A;
\* the address frames name every 6-bit address A itself.
C7_WriteThenRead ==
    /\ Done("writeReg") =>
          /\ \A a \in 0 .. 63 :
                regs[a] = IF a = call.addr THEN call.val ELSE regs0[a]
          /\ obs.writes = <<<<call.addr, call.val>>>>
          /\ \A a \in 0 .. 63 :
                /\ FrameAddr(writeFrame(a)) = a /\ ~FrameIsRead(writeFrame(a))
                /\ FrameAddr(readFrame(a)) = a /\ FrameIsRead(readFrame(a))
    /\ (Done("readReg") /\ prev.op = "writeReg") =>
          /\ ret.num = test.val
          /\ regs = regs0

C7_Witness ==
    /\ Done("readReg")
    /\ prev.op = "writeReg"
    /\ test.addr = \H3F
    /\ ret.num = \HA5
    /\ regs[0] = \H5A

\* C8: setBits(A, m) is idempotent: applied twice it leaves the register as
\* applied once, the prior value ORed with m.
C8_SetBitsIdempotent ==
    /\ Done("setBitMask") =>
          \A k \in 0 .. 7 :
             Bit(regs[test.addr], k) =
                 IF Bit(test.val, k) = 1 THEN 1 ELSE Bit(regs0[test.addr], k)
    /\ (Done("setBitMask") /\ prev.op = "setBitMask") =>
          /\ regs[test.addr] = prev.post
          /\ \A k \in 0 .. 7 :
                Bit(prev.post, k) =
                    IF Bit(test.val, k) = 1 THEN 1 ELSE Bit(prev.pre, k)

C8_Witness ==
    /\ Done("setBitMask")
    /\ prev.op = "setBitMask"
    /\ test.val = \HA5
    /\ prev.pre = \H5A
    /\ prev.post = \HFF
    /\ regs[test.addr] = \HFF

\* C9: clearBits(A, m) leaves an 8-bit value, the prior value with exactly
\* the bits of m cleared; clearBits(A, m) followed by setBits(A, m) leaves
\* every bit of m set and every other bit as it was.
C9_ClearThenSet ==
    /\ Done("clearBitMask") =>
          /\ regs[test.addr] \in Byte
          /\ \A k \in 0 .. 7 :
                Bit(regs[test.addr], k) =
                    IF Bit(test.val, k) = 1 THEN 0 ELSE Bit(regs0[test.addr], k)
    /\ (Done("setBitMask") /\ prev.op = "clearBitMask") =>
          \A k \in 0 .. 7 :
             Bit(regs[test.addr], k) =
                 IF Bit(test.val, k) = 1 THEN 1 ELSE Bit(prev.pre, k)

C9_Witness ==
    /\ Done("setBitMask")
    /\ prev.op = "clearBitMask"
    /\ test.val = \HA5
    /\ prev.pre = \H5A
    /\ prev.post = \H5A
    /\ regs[test.addr] = \HFF

\* C10: antennaOn() writes nothing when the low two bits of TxControlReg are
\* both set; otherwise it writes TxControlReg once, setting both bits and
\* leaving its other bits; a second antennaOn() never writes.
C10_AntennaOnIdempotent ==
    Done("antennaOn") =>
        /\ IF Bit(regs0[TxControlReg], 0) = 1 /\ Bit(regs0[TxControlReg], 1) = 1
           THEN obs.writes = <<>>
           ELSE /\ Len(obs.writes) = 1
                /\ obs.writes[1][1] = TxControlReg
        /\ \A k \in 0 .. 7 :
              Bit(regs[TxControlReg], k) =
                  IF k < 2 THEN 1 ELSE Bit(regs0[TxControlReg], k)
        /\ \A a \in 0 .. 63 : a # TxControlReg => regs[a] = regs0[a]
        /\ prev.op = "antennaOn" => obs.writes = <<>>

C10_Witness ==
    /\ Done("antennaOn")
    /\ prev.op = "antennaOn"
    /\ test.addr = TxControlReg
    /\ prev.pre = \H02
    /\ prev.post = \H03
    /\ obs.writes = <<>>

\* s is an initial part of t
IsPrefix(s, t) == Len(s) <= Len(t) /\ s = SubSeq(t, 1, Len(s))

\* the register writes of init() up to the mode register, in order
InitWrites ==
    <<<<CommandReg, PCD_SOFTRESET>>, <<\H2A, \H80>>, <<\H2B, \HA9>>,
      <<\H2C, \H03>>, <<\H2D, \HE8>>, <<ModeReg, \H3D>>>>

\* C11: init() works in a fixed order: chip-select and reset are high before
\* any SPI register access; the soft reset is issued and its completion wait
\* has ended before a timer register is written; the timer registers
\* 0x2A..0x2D are written before ModeReg; the antenna is enabled last; when
\* init() returns the five registers hold 0x80, 0xA9, 0x03, 0xE8, 0x3D and
\* the low two bits of TxControlReg are set.
C11_InitOrder ==
    call.op = "init" =>
        /\ (sel # <<>> \/ obs.writes # <<>> \/ obs.cmdReads > 0) =>
              (rst = 1 /\ ~obs.nested /\ ~obs.xferHigh)
        /\ IF Len(obs.writes) <= 6
           THEN IsPrefix(obs.writes, InitWrites)
           ELSE /\ SubSeq(obs.writes, 1, 6) = InitWrites
                /\ Len(obs.writes) = 7
                /\ obs.writes[7][1] = TxControlReg
        /\ Len(obs.writes) >= 2 =>
              (~Active("reset") /\ obs.cmdReads = obs.busySeen + 1)
        /\ Active("antennaOn") => Len(obs.writes) >= 6
        /\ Idle =>
              /\ regs[\H2A] = \H80 /\ regs[\H2B] = \HA9
              /\ regs[\H2C] = \H03 /\ regs[\H2D] = \HE8
              /\ regs[ModeReg] = \H3D
              /\ Bit(regs[TxControlReg], 0) = 1
              /\ Bit(regs[TxControlReg], 1) = 1
              /\ Len(obs.writes) >= 6

C11_Witness ==
    /\ Done("init")
    /\ Len(obs.writes) = 7
    /\ obs.busySeen = 2
    /\ regs[TxControlReg] = \H03
    /\ regs[\H2D] = \HE8

\* C12: after AntennaOff() the antenna is disabled: the low two bits of
\* TxControlReg are clear and its other bits are unchanged.
C12_AntennaOffDisables ==
    Done("AntennaOff") =>
        \A k \in 0 .. 7 :
           Bit(regs[TxControlReg], k) =
               IF k < 2 THEN 0 ELSE Bit(regs0[TxControlReg], k)

\* C13: every byte 0x00..0xFF is formatted as exactly two upper-case
\* hexadecimal characters, with a leading zero for 0x00..0x0F (0x04 gives
\* "04"), so 5 bytes always give exactly 10 characters.
C13_HexFormatting ==
    Done("format") =>
        /\ Len(ret.str) = 10
        /\ \A k \in 1 .. 5 :
              /\ SubSeq(ret.str, 2 * k - 1, 2 * k) = TwoHex(TestUid[k])
              /\ TestUid[k] < 16 => ret.str[2 * k - 1] = "0"
        /\ \A k \in 1 .. 10 :
              ret.str[k] \in {UpperHex[j] : j \in 1 .. 16}
        /\ test.val = \H04 => SubSeq(ret.str, 1, 2) = <<"0", "4">>

C13_Witness ==
    /\ Done("format")
    /\ test.val = \H04
    /\ test.addr = \HFF
    /\ ret.str = <<"0", "4", "F", "F", "0", "4", "F", "F", "0", "4">>

\* C14: the poll of ComIrqReg in request reads the register at least once
\* and at most 25 times and stops at the first read that shows RxIRq or
\* IdleIRq: no ComIrqReg read follows such a read, and when no read shows
\* them exactly 25 reads are made.
C14_PollBounded ==
    /\ ~obs.irqAfterHit
    /\ obs.irqReads <= 25
    /\ obs.irqReads > 0 => Active("request")
    /\ At("request", 13) =>
          /\ obs.irqReads >= 1
          /\ ~obs.irqHit => obs.irqReads = 25

C14_Witness ==
    /\ At("request", 13)
    /\ obs.irqReads = 25
    /\ ~obs.irqHit

\* C15: request returns 1 if and only if the one read of FIFOLevelReg made
\* after the poll returns 2, and 0 for every other value, whether the poll
\* ended on an IRQ bit or on the exhausted budget.
C15_PresenceIffTwo ==
    /\ [](At("getCardUID", 2) =>
            /\ Len(obs.levels) = 1
            /\ ret.num = IF obs.levels[1] = 2 THEN 1 ELSE 0)
    /\ [][At("request", 14) =>
            ret'.num = IF ret.num = 2 THEN 1 ELSE 0]_vars

C15_Witness ==
    /\ At("request", 14)
    /\ Top.i = 0
    /\ Top.irq = \H45
    /\ obs.levels = <<2>>
    /\ ret.num = 2

\* the register writes of getCardUID, in order: the presence request, then
\* the anti-collision exchange
ExchangeWrites ==
    <<<<BitFramingReg, \H07>>, <<FIFOLevelReg, \H80>>,
      <<FIFODataReg, \H26>>, <<CommandReg, \H0C>>,
      <<BitFramingReg, \H87>>, <<BitFramingReg, \H07>>,
      <<FIFOLevelReg, \H80>>, <<FIFODataReg, \H93>>, <<FIFODataReg, \H20>>,
      <<CommandReg, \H0C>>, <<BitFramingReg, \H87>>, <<BitFramingReg, \H07>>>>

\* a read of ComIrqReg or FIFOLevelReg is on the bus
StatusReadOnBus ==
    /\ sel # <<>>
    /\ FrameIsRead(sel[1])
    /\ FrameAddr(sel[1]) \in {ComIrqReg, FIFOLevelReg}

\* C16: each transceive exchange has a fixed order: FIFO flush, then the
\* command bytes into FIFODataReg ([reqMode] for the request, [0x93, 0x20]
\* for anti-collision), then Transceive into CommandReg, then StartSend set,
\* then StartSend cleared, and only then reads of ComIrqReg or FIFOLevelReg.
C16_ExchangeOrder ==
    call.op = "getCardUID" =>
        /\ IsPrefix(obs.writes, ExchangeWrites)
        /\ StatusReadOnBus =>
              /\ Bit(regs[BitFramingReg], 7) = 0
              /\ Len(obs.writes) \in {6, 12}
        /\ obs.irqReads > 0 => Len(obs.writes) = 6
        /\ Len(obs.levels) = 1 => Len(obs.writes) >= 6
        /\ Len(obs.levels) = 2 => Len(obs.writes) = 12
        /\ obs.data # <<>> => Len(obs.writes) = 12

C16_Witness ==
    /\ Done("getCardUID")
    /\ obs.writes = ExchangeWrites
    /\ obs.levels = <<2, 5>>

\* C17: every getCardUID call comes to an end whatever the chip answers: it
\* writes at most 12 registers, reads ComIrqReg at most 25 times in a row,
\* FIFOLevelReg at most twice and FIFODataReg at most 5 times, and then
\* returns; the completion wait of reset() is the one loop without a bound:
\* against a chip that never clears CommandReg bit 4 it is never left.
C17_GetCardUIDTerminates ==
    /\ [](call.op = "getCardUID" =>
            /\ Len(obs.writes) <= 12
            /\ obs.irqReads <= PollTries
            /\ Len(obs.levels) <= 2
            /\ Len(obs.data) <= 5
            /\ obs.cmdReads = 0)
    /\ (Active("getCardUID") ~> Done("getCardUID"))
    /\ [][(ResetWaiting /\ busy.never) => Active("reset")']_vars

C17_Witness ==
    /\ Done("getCardUID")
    /\ Len(obs.writes) = 12
    /\ Len(obs.levels) = 2
    /\ Len(obs.data) = 5

\* the result of getCardUID as a function of the FIFO levels and FIFO bytes
\* the chip returned during the call
RECURSIVE Encoding(_)
Encoding(bytes) ==
    IF bytes = <<>> THEN <<>>
    ELSE TwoHex(Head(bytes)) \o Encoding(Tail(bytes))

ResultOf(levels, data) ==
    IF levels = <<2, 5>> THEN Encoding(data) ELSE NoStr

\* C18 (as stated): every getCardUID call starts with the chip's command
\* state Idle, and its result depends only on the values the chip returns
\* during the call.
C18_FreshFromIdle ==
    call.op = "getCardUID" =>
        /\ regs0[CommandReg] = PCD_IDLE
        /\ Idle => ret.str = ResultOf(obs.levels, obs.data)

\* C18 (amended): no driver state carries across calls: the result of every
\* getCardUID call is a function of the FIFOLevelReg and FIFODataReg values
\* read during that call, whatever calls preceded it and whatever the
\* registers held when it was called; the command register holds Idle only
\* before the first call after init and Transceive before every later one.
C18_ResultFromThisCall ==
    /\ Done("getCardUID") =>
          /\ ret.str = ResultOf(obs.levels, obs.data)
          /\ ret.num = 0
          /\ regs[CommandReg] = PCD_TRANSCEIVE
    /\ call.op = "getCardUID" =>
          regs0[CommandReg] \in {PCD_IDLE, PCD_TRANSCEIVE}
    /\ At("getCardUID", 1) =>
          /\ obs = Obs0
          /\ ret = NoRet
          /\ Len(stack) = 1

C18_Witness ==
    /\ Done("getCardUID")
    /\ regs0[CommandReg] = PCD_TRANSCEIVE
    /\ regs0[FIFODataReg] = \H26
    /\ obs.levels = <<2, 5>>
    /\ obs.data = <<\HDD, \HCC, \H04, \HAA, \HBB>>
    /\ ret.str = <<"D", "D", "C", "C", "0", "4", "A", "A", "B", "B">>

\* the bytes written to BitFramingReg by one getCardUID call that runs both
\* exchanges
FramingWrites == <<\H07, \H87, \H07, \H87, \H07>>

\* C19: BitFramingReg answers as a register file. StartSend (bit 7) is clear
\* whenever request or anticoll has returned; anticoll never changes the low
\* 7 bits: while it runs they are the short-frame value 7 that request
\* wrote, so StartSend is set on 0x07 (0x87 is written); BitFramingReg is
\* 0x07 after every completed getCardUID call.
C19_StartSendCleared ==
    call.op = "getCardUID" =>
        /\ (At("getCardUID", 2) \/ At("getCardUID", 3) \/ Idle) =>
              Bit(regs[BitFramingReg], 7) = 0
        /\ Active("anticoll") => regs[BitFramingReg] % 128 = \H07
        /\ IsPrefix(WrittenTo(BitFramingReg, obs.writes), FramingWrites)
        /\ Idle => regs[BitFramingReg] = \H07

C19_Witness ==
    /\ At("getCardUID", 3)
    /\ regs0[BitFramingReg] = \HFF
    /\ regs[BitFramingReg] = \H07
    /\ WrittenTo(BitFramingReg, obs.writes) = FramingWrites

\* the registers an exchange writes
ExchangeRegs == {BitFramingReg, FIFOLevelReg, FIFODataReg, CommandReg}

\* the configuration init() leaves in the chip
Configured ==
    /\ regs[\H2A] = \H80 /\ regs[\H2B] = \HA9
    /\ regs[\H2C] = \H03 /\ regs[\H2D] = \HE8
    /\ regs[ModeReg] = \H3D
    /\ regs[TxControlReg] % 4 = 3

\* C20: getCardUID writes only BitFramingReg, FIFOLevelReg, FIFODataReg and
\* CommandReg, and only Transceive to CommandReg; every other register
\* (TxControlReg, ModeReg, the timer registers, ComIrqReg) keeps the value
\* it had at the call; after init and any number of getCardUID calls the
\* antenna enable bits are set and the timer and mode registers hold what
\* init wrote.
C20_WritesOnlyExchangeRegs ==
    /\ call.op = "getCardUID" =>
          /\ \A k \in 1 .. Len(obs.writes) :
                /\ obs.writes[k][1] \in ExchangeRegs
                /\ obs.writes[k][1] = CommandReg =>
                      obs.writes[k][2] = PCD_TRANSCEIVE
          /\ \A a \in (0 .. 63) \ ExchangeRegs : regs[a] = regs0[a]
          /\ Configured
    /\ Done("init") => Configured

C20_Witness ==
    /\ Done("getCardUID")
    /\ regs0[CommandReg] = PCD_TRANSCEIVE
    /\ Len(obs.writes) = 12
    /\ regs[TxControlReg] = \H03
    /\ regs[\H2B] = \HA9

====
